---- MODULE Spec2Model ----
(***************************************************************************)
(* A model of the jinja-test repository: the filter library                *)
(* (filters/salt.py, filters/tags.py), its registrars (install) and the    *)
(* command-line harness (jinja-test.py).  The code is Python 2 (print      *)
(* statements, dict.iteritems), so integer division floors and unicode is  *)
(* a type distinct from str.                                               *)
(***************************************************************************)
EXTENDS Integers, Sequences, FiniteSets, TLC

VARIABLES
    fn,        \* library: name of the filter function called last ("" = none yet)
    args,      \* library: the argument objects as they were when the call began
    post,      \* library: the same argument objects when the call ended
    ret,       \* library: what the call produced (value, alias of an argument, or exception)
    filters,   \* registrar: the engine's filter namespace, a set of <<name, function>>
    installed, \* registrar: which install functions have run on the namespace
    argv,      \* harness: the command line options
    pillarDoc, \* harness: what the pillar file is ("mapping", "malformed", "missing")
    tplDoc,    \* harness: what the template file is ("found", "missing")
    pc,        \* harness: control position
    optIdx,    \* harness: index of the option main's loop looks at next
    pillar,    \* harness: the pillar value bound by load_pillar ("unbound" before)
    out,       \* harness: what was printed to standard output, in order
    status     \* harness: how the process ended ("" while running)

libVars == <<fn, args, post, ret>>
regVars == <<filters, installed>>
cliVars == <<argv, pillarDoc, tplDoc, pc, optIdx, pillar, out, status>>
vars == <<fn, args, post, ret, filters, installed,
          argv, pillarDoc, tplDoc, pc, optIdx, pillar, out, status>>

(***************************************************************************)
(* Bounds of the model.                                                    *)
(***************************************************************************)
MaxLen == 2        \* longest list or tuple handed to a filter
MaxTags == 2       \* longest tag sequence of a tag mapping entry
MaxFmtLen == 3     \* longest format string, in characters
MaxOpts == 2       \* most options on the command line

(***************************************************************************)
(* Python values.                                                          *)
(***************************************************************************)
NoneV == [type |-> "NoneType"]
Bool(b) == [type |-> "bool", b |-> b]
PyInt(i) == [type |-> "int", i |-> i]
Float(n, d) == [type |-> "float", num |-> n, den |-> d]
Str(s) == [type |-> "str", s |-> s]
Unicode(s) == [type |-> "unicode", s |-> s]
List(items) == [type |-> "list", items |-> items]
Tuple(items) == [type |-> "tuple", items |-> items]
SetV(elems) == [type |-> "set", elems |-> elems]
Dict(items) == [type |-> "dict", items |-> items]

SeqsUpTo(S, n) == UNION {[1..k -> S] : k \in 0..n}

Range(s) == {s[i] : i \in 1..Len(s)}

RECURSIVE SelectSeq2(_, _)
\* the subsequence of s whose elements are in the set S, in order
SelectSeq2(s, S) ==
    IF s = <<>> THEN <<>>
    ELSE IF Head(s) \in S THEN <<Head(s)>> \o SelectSeq2(Tail(s), S)
    ELSE SelectSeq2(Tail(s), S)

(***************************************************************************)
(* Outcome of a filter call: the value returned (alias = i > 0 when the    *)
(* returned object IS the i-th argument, 0 when it was constructed by the  *)
(* call), or the exception raised, and the argument objects afterwards.    *)
(***************************************************************************)
Return(v, after) == [exc |-> "", alias |-> 0, val |-> v, post |-> after]
ReturnArg(i, after) == [exc |-> "", alias |-> i, val |-> after[i], post |-> after]
Raise(e, after) == [exc |-> e, alias |-> 0, val |-> NoneV, post |-> after]

(***************************************************************************)
(* Python built-ins the filters use.                                       *)
(***************************************************************************)
\* isinstance(x, dict), isinstance(x, str): Python 2's str is the byte string
\* type; a unicode object is not an instance of it.
IsDict(x) == x.type = "dict"
IsStr(x) == x.type = "str"

\* x is a substring of y (both character sequences): Python's `x in y` on strings
IsSubstring(x, y) ==
    \E i \in 0..(Len(y) - Len(x)) : \A j \in 1..Len(x) : y[i + j] = x[j]

\* Python's ==: a str and a unicode object with the same (ASCII) characters are
\* equal; otherwise values are equal when they are the same value.
PyEq(x, y) ==
    IF x.type \in {"str", "unicode"} /\ y.type \in {"str", "unicode"}
    THEN x.s = y.s
    ELSE x = y

\* Whether `tag in v` can be evaluated: v must be a container or a string
\* (an int or None is not iterable and the test raises TypeError);
\* a string on the right-hand side accepts only a string on the left.
InDefined(x, v) ==
    \/ v.type \in {"list", "tuple", "set", "dict"}
    \/ v.type \in {"str", "unicode"} /\ x.type \in {"str", "unicode"}

\* The value of `x in v` where it is defined: element equality for a list or
\* tuple, key membership for a dict, substring search for a string.
In(x, v) ==
    CASE v.type \in {"list", "tuple"} -> \E i \in 1..Len(v.items) : PyEq(v.items[i], x)
      [] v.type = "set" -> \E e \in v.elems : PyEq(e, x)
      [] v.type = "dict" -> \E i \in 1..Len(v.items) : PyEq(v.items[i][1], x)
      [] v.type \in {"str", "unicode"} -> IsSubstring(x.s, v.s)
      [] OTHER -> FALSE

RECURSIVE FormatFrom(_, _, _, _)
\* `fmt % k` for a key k that is a string, scanning fmt from position i;
\* used = whether the single argument was consumed already.  "%s" inserts k,
\* "%%" is a literal percent sign.  The result is the formatted characters, or
\* an exception: a second directive finds no argument left, a "%" at the end
\* is an incomplete format, a directive other than "%s" is unsupported here, and
\* an argument left over at the end was not converted.
FormatFrom(fmt, k, i, used) ==
    IF i > Len(fmt)
    THEN IF used THEN [exc |-> "", s |-> <<>>] ELSE [exc |-> "TypeError", s |-> <<>>]
    ELSE IF fmt[i] # "%"
    THEN LET rest == FormatFrom(fmt, k, i + 1, used)
         IN  IF rest.exc # "" THEN rest ELSE [exc |-> "", s |-> <<fmt[i]>> \o rest.s]
    ELSE IF i = Len(fmt) THEN [exc |-> "ValueError", s |-> <<>>]
    ELSE IF fmt[i + 1] = "%"
    THEN LET rest == FormatFrom(fmt, k, i + 2, used)
         IN  IF rest.exc # "" THEN rest ELSE [exc |-> "", s |-> <<"%">> \o rest.s]
    ELSE IF used THEN [exc |-> "TypeError", s |-> <<>>]
    ELSE IF fmt[i + 1] # "s" THEN [exc |-> "ValueError", s |-> <<>>]
    ELSE LET rest == FormatFrom(fmt, k, i + 2, TRUE)
         IN  IF rest.exc # "" THEN rest ELSE [exc |-> "", s |-> k \o rest.s]

\* interpolation % k
Format(fmt, k) == FormatFrom(fmt, k, 1, FALSE)

(***************************************************************************)
(* filters/tags.py                                                         *)
(***************************************************************************)
RECURSIVE TagScan(_, _)
\* [k for k,v in dct.iteritems() if tag in v], over the items in iteration
\* order; the comprehension stops with TypeError at the first value on which
\* `tag in v` cannot be evaluated.
TagScan(items, tag) ==
    IF items = <<>> THEN [exc |-> "", keys |-> <<>>]
    ELSE LET k == Head(items)[1]
             v == Head(items)[2]
         IN  IF ~InDefined(tag, v) THEN [exc |-> "TypeError", keys |-> <<>>]
             ELSE LET rest == TagScan(Tail(items), tag)
                  IN  IF rest.exc # "" THEN rest
                      ELSE IF In(tag, v) THEN [exc |-> "", keys |-> <<k>> \o rest.keys]
                      ELSE rest

RECURSIVE TagFormatScan(_, _, _)
\* [interpolation % k for k,v in dct.iteritems() if tag in v]: test and format
\* alternate item by item, so the first item that fails either way raises.
TagFormatScan(items, tag, fmt) ==
    IF items = <<>> THEN [exc |-> "", strs |-> <<>>]
    ELSE LET k == Head(items)[1]
             v == Head(items)[2]
         IN  IF ~InDefined(tag, v) THEN [exc |-> "TypeError", strs |-> <<>>]
             ELSE IF ~In(tag, v) THEN TagFormatScan(Tail(items), tag, fmt)
             ELSE LET f == Format(fmt, k.s)
                  IN  IF f.exc # "" THEN [exc |-> f.exc, strs |-> <<>>]
                      ELSE LET rest == TagFormatScan(Tail(items), tag, fmt)
                           IN  IF rest.exc # "" THEN rest
                               ELSE [exc |-> "", strs |-> <<Str(f.s)>> \o rest.strs]

\* list_with_tag with the membership test loosened to a substring search in
\* each tag
list_with_tag_substring(dct, tag) ==
    IF IsDict(dct) /\ IsStr(tag)
    THEN Return(List(SelectSeq2([i \in 1..Len(dct.items) |-> dct.items[i][1]],
                                {dct.items[i][1] : i \in {j \in 1..Len(dct.items) :
                                    /\ dct.items[j][2].type = "list"
                                    /\ \E t \in Range(dct.items[j][2].items) :
                                          IsSubstring(tag.s, t.s)}})),
                <<dct, tag>>)
    ELSE ReturnArg(1, <<dct, tag>>)

\* list_with_tag without the type test of the tag
list_with_tag_any_tag(dct, tag) ==
    IF IsDict(dct)
    THEN LET r == TagScan(dct.items, tag)
         IN  IF r.exc # "" THEN Raise(r.exc, <<dct, tag>>)
             ELSE Return(List(r.keys), <<dct, tag>>)
    ELSE ReturnArg(1, <<dct, tag>>)

\* list_with_tag deleting the untagged entries from dct itself
list_with_tag_in_place(dct, tag) ==
    IF IsDict(dct) /\ IsStr(tag)
    THEN LET r == TagScan(dct.items, tag)
         IN  IF r.exc # "" THEN Raise(r.exc, <<dct, tag>>)
             ELSE Return(List(r.keys),
                         <<Dict(SelectSeq(dct.items, LAMBDA it : it[1] \in Range(r.keys))), tag>>)
    ELSE ReturnArg(1, <<dct, tag>>)

list_with_tag(dct, tag) ==
    IF IsDict(dct) /\ IsStr(tag)
    THEN LET r == TagScan(dct.items, tag)
         IN  IF r.exc # "" THEN Raise(r.exc, <<dct, tag>>)
             ELSE Return(List(r.keys), <<dct, tag>>)
    ELSE ReturnArg(1, <<dct, tag>>)

interpolate_list_with_tag(dct, tag, interpolation) ==
    IF IsDict(dct) /\ IsStr(tag) /\ IsStr(interpolation)
    THEN LET r == TagFormatScan(dct.items, tag, interpolation.s)
         IN  IF r.exc # "" THEN Raise(r.exc, <<dct, tag, interpolation>>)
             ELSE Return(List(r.strs), <<dct, tag, interpolation>>)
    ELSE ReturnArg(1, <<dct, tag, interpolation>>)

(***************************************************************************)
(* filters/salt.py                                                         *)
(***************************************************************************)
\* The names bound in the module's global namespace when a filter runs: the
\* two imports and the functions the module defines.  The filters also refer to
\* six, collections, pipes, salt and GLOBAL_UUID, which the module never binds.
ModuleGlobals ==
    {"re", "uuid",
     "skip_filter", "ensure_sequence_filter", "to_bool", "quote", "regex_escape",
     "regex_search", "regex_match", "regex_replace", "uuid_", "unique", "lst_min",
     "lst_max", "lst_avg", "union", "intersect", "difference",
     "symmetric_difference", "install"}

\* Evaluating a global name that is not bound raises NameError.
Bound(name) == name \in ModuleGlobals

\* isinstance(x, collections.Hashable): decided by the type of x itself; a
\* list, dict or set is never hashable, a tuple always is, whatever it holds.
Hashable(x) == x.type \in {"NoneType", "bool", "int", "float", "str", "unicode", "tuple"}

\* hash(x) succeeds: a tuple hashes only if every element does
RECURSIVE CanHash(_)
CanHash(x) ==
    IF x.type = "tuple" THEN \A i \in 1..Len(x.items) : CanHash(x.items[i])
    ELSE Hashable(x)

\* iter(x) is defined
Iterable(x) == x.type \in {"list", "tuple", "dict", "str", "unicode"}

\* the elements iteration over x yields, in order
Iter(x) ==
    CASE x.type \in {"list", "tuple"} -> x.items
      [] x.type = "dict" -> [i \in 1..Len(x.items) |-> x.items[i][1]]
      [] x.type = "str" -> [i \in 1..Len(x.s) |-> Str(<<x.s[i]>>)]
      [] x.type = "unicode" -> [i \in 1..Len(x.s) |-> Unicode(<<x.s[i]>>)]
      [] OTHER -> <<>>

\* set(x): TypeError when x is not iterable or an element cannot be hashed
SetOf(x) ==
    IF ~Iterable(x) \/ \E i \in 1..Len(Iter(x)) : ~CanHash(Iter(x)[i])
    THEN [exc |-> "TypeError", elems |-> {}]
    ELSE [exc |-> "", elems |-> Range(Iter(x))]

RECURSIVE UniqueScan(_, _)
\* for value in values: if value not in ret: ret.append(value)
UniqueScan(values, acc) ==
    IF values = <<>> THEN acc
    ELSE IF \E i \in 1..Len(acc) : PyEq(acc[i], Head(values))
    THEN UniqueScan(Tail(values), acc)
    ELSE UniqueScan(Tail(values), Append(acc, Head(values)))

RECURSIVE Sum(_)
Sum(items) == IF items = <<>> THEN 0 ELSE Head(items).i + Sum(Tail(items))

LowerChar(c) ==
    CASE c = "Y" -> "y" [] c = "E" -> "e" [] c = "S" -> "s" [] c = "T" -> "t"
      [] c = "R" -> "r" [] c = "U" -> "u" [] c = "N" -> "n" [] c = "O" -> "o"
      [] OTHER -> c

\* val.lower()
Lower(s) == [i \in 1..Len(s) |-> LowerChar(s[i])]

skip_filter(data) == Return(Str(<<>>), <<data>>)

ensure_sequence_filter(data) ==
    IF data.type \notin {"list", "tuple", "set", "dict"}
    THEN Return(List(<<data>>), <<data>>)
    ELSE ReturnArg(1, <<data>>)

to_bool(val) ==
    IF val.type = "NoneType" THEN Return(Bool(FALSE), <<val>>)
    ELSE IF val.type = "bool" THEN Return(val, <<val>>)
    ELSE IF ~Bound("six") THEN Raise("NameError", <<val>>)
    ELSE IF val.type \in {"str", "unicode"}
    THEN Return(Bool(Lower(val.s) \in {<<"y", "e", "s">>, <<"1">>, <<"t", "r", "u", "e">>}),
                <<val>>)
    ELSE IF val.type = "int" THEN Return(Bool(val.i > 0), <<val>>)
    ELSE IF ~Bound("collections") THEN Raise("NameError", <<val>>)
    ELSE IF ~Hashable(val) THEN Return(Bool(Len(Iter(val)) > 0), <<val>>)
    ELSE Return(Bool(FALSE), <<val>>)

unique(values) ==
    IF ~Bound("collections") THEN Raise("NameError", <<values>>)
    ELSE IF Hashable(values)
    THEN LET st == SetOf(values)
         IN  IF st.exc # "" THEN Raise(st.exc, <<values>>)
             ELSE Return(SetV(st.elems), <<values>>)
    ELSE Return(List(UniqueScan(Iter(values), <<>>)), <<values>>)

lst_avg(lst) ==
    IF ~Bound("collections") THEN Raise("NameError", <<lst>>)
    ELSE IF ~Hashable(lst)
    THEN IF \E i \in 1..Len(Iter(lst)) : Iter(lst)[i].type # "int"
         THEN Raise("TypeError", <<lst>>)
         ELSE IF Len(Iter(lst)) = 0 THEN Raise("ZeroDivisionError", <<lst>>)
         \* both operands are ints: Python 2's / is floor division
         ELSE Return(Float(Sum(Iter(lst)) \div Len(Iter(lst)), 1), <<lst>>)
    ELSE IF lst.type = "int" THEN Return(Float(lst.i, 1), <<lst>>)
    ELSE IF lst.type = "float" THEN Return(lst, <<lst>>)
    ELSE IF lst.type = "bool" THEN Return(Float(IF lst.b THEN 1 ELSE 0, 1), <<lst>>)
    ELSE IF lst.type \in {"str", "unicode"}
    THEN IF lst.s = <<"1">> THEN Return(Float(1, 1), <<lst>>)
         ELSE Raise("ValueError", <<lst>>)
    ELSE Raise("TypeError", <<lst>>)

\* lst1 + lst2: defined for two lists or two tuples, TypeError otherwise
Concat(lst1, lst2) ==
    IF lst1.type = "list" /\ lst2.type = "list"
    THEN [exc |-> "", val |-> List(lst1.items \o lst2.items)]
    ELSE IF lst1.type = "tuple" /\ lst2.type = "tuple"
    THEN [exc |-> "", val |-> Tuple(lst1.items \o lst2.items)]
    ELSE [exc |-> "TypeError", val |-> NoneV]

\* [ele for ele in lst1 if ele in lst2] (keep = TRUE) or
\* [ele for ele in lst1 if ele not in lst2] (keep = FALSE)
RECURSIVE FilterIn(_, _, _)
FilterIn(items, lst2, keep) ==
    IF items = <<>> THEN <<>>
    ELSE IF In(Head(items), lst2) = keep
    THEN <<Head(items)>> \o FilterIn(Tail(items), lst2, keep)
    ELSE FilterIn(Tail(items), lst2, keep)

\* the value of set(lst1) <op> set(lst2), or the TypeError of either set()
SetPath(lst1, lst2, op) ==
    LET s1 == SetOf(lst1)
        s2 == SetOf(lst2)
    IN  IF s1.exc # "" THEN Raise(s1.exc, <<lst1, lst2>>)
        ELSE IF s2.exc # "" THEN Raise(s2.exc, <<lst1, lst2>>)
        ELSE Return(SetV(CASE op = "|" -> s1.elems \cup s2.elems
                           [] op = "&" -> s1.elems \cap s2.elems
                           [] op = "-" -> s1.elems \ s2.elems
                           [] op = "^" -> (s1.elems \ s2.elems) \cup (s2.elems \ s1.elems)),
                    <<lst1, lst2>>)

\* a comprehension over lst1 testing membership in lst2 needs both iterable
CanFilter(lst1, lst2) ==
    /\ Iterable(lst1)
    /\ Len(Iter(lst1)) > 0 => lst2.type \in {"list", "tuple", "dict", "set"}

union(lst1, lst2) ==
    IF ~Bound("collections") THEN Raise("NameError", <<lst1, lst2>>)
    ELSE IF Hashable(lst1) /\ Hashable(lst2) THEN SetPath(lst1, lst2, "|")
    ELSE LET cat == Concat(lst1, lst2)
         IN  IF cat.exc # "" THEN Raise(cat.exc, <<lst1, lst2>>)
             ELSE LET u == unique(cat.val)
                  IN  [u EXCEPT !.post = <<lst1, lst2>>]

intersect(lst1, lst2) ==
    IF ~Bound("collections") THEN Raise("NameError", <<lst1, lst2>>)
    ELSE IF Hashable(lst1) /\ Hashable(lst2) THEN SetPath(lst1, lst2, "&")
    ELSE IF ~CanFilter(lst1, lst2) THEN Raise("TypeError", <<lst1, lst2>>)
    ELSE LET u == unique(List(FilterIn(Iter(lst1), lst2, TRUE)))
         IN  [u EXCEPT !.post = <<lst1, lst2>>]

difference(lst1, lst2) ==
    IF ~Bound("collections") THEN Raise("NameError", <<lst1, lst2>>)
    ELSE IF Hashable(lst1) /\ Hashable(lst2) THEN SetPath(lst1, lst2, "-")
    ELSE IF ~CanFilter(lst1, lst2) THEN Raise("TypeError", <<lst1, lst2>>)
    ELSE LET u == unique(List(FilterIn(Iter(lst1), lst2, FALSE)))
         IN  [u EXCEPT !.post = <<lst1, lst2>>]

symmetric_difference(lst1, lst2) ==
    IF ~Bound("collections") THEN Raise("NameError", <<lst1, lst2>>)
    ELSE IF Hashable(lst1) /\ Hashable(lst2) THEN SetPath(lst1, lst2, "^")
    ELSE LET u == union(lst1, lst2)
         IN  IF u.exc # "" THEN Raise(u.exc, <<lst1, lst2>>)
             ELSE IF Len(Iter(u.val)) = 0 THEN Return(List(<<>>), <<lst1, lst2>>)
             ELSE LET n == intersect(lst1, lst2)
                  IN  IF n.exc # "" THEN Raise(n.exc, <<lst1, lst2>>)
                      ELSE LET r == unique(List(FilterIn(Iter(u.val), n.val, FALSE)))
                           IN  [r EXCEPT !.post = <<lst1, lst2>>]

(***************************************************************************)
(* The registrars: install(env) of filters/salt.py and filters/tags.py     *)
(* bind names in env.filters, replacing a binding of the same name.        *)
(***************************************************************************)
\* env.filters[name] = f
Bind(ns, name, f) == {b \in ns : b[1] # name} \cup {<<name, f>>}

RECURSIVE BindAll(_, _)
BindAll(ns, names) ==
    IF names = <<>> THEN ns
    ELSE BindAll(Bind(ns, Head(names), <<"filters.salt", Head(names)>>), Tail(names))

\* the keys install of filters/salt.py assigns, each bound to the function of
\* the same name
SaltInstallNames ==
    <<"skip_filter", "ensure_sequence_filter", "to_bool", "quote", "regex_escape",
      "regex_search", "regex_match", "regex_replace", "uuid_", "unique", "lst_min",
      "lst_max", "lst_avg", "union", "intersect", "difference", "symmetric_difference">>

salt_install(ns) == BindAll(ns, SaltInstallNames)

tags_install(ns) ==
    Bind(Bind(ns, "list_with_tag", <<"filters.tags", "list_with_tag">>),
         "interpolate_list_with_tag", <<"filters.tags", "interpolate_list_with_tag">>)

(***************************************************************************)
(* The library as its host uses it: any filter, on any argument values,    *)
(* one call at a time.                                                     *)
(***************************************************************************)
Elems == {PyInt(1), PyInt(2), List(<<PyInt(1)>>)}
Lists == {List(s) : s \in SeqsUpTo(Elems, MaxLen)}
Tuples == {Tuple(s) : s \in SeqsUpTo(Elems, MaxLen)}
IntLists == {List(s) : s \in SeqsUpTo({PyInt(-1), PyInt(1), PyInt(2)}, MaxLen)}
Scalars ==
    {NoneV, Bool(TRUE), Bool(FALSE), PyInt(-1), PyInt(0), PyInt(5), Float(3, 2),
     Str(<<"Y", "E", "S">>), Str(<<"n", "o">>), Str(<<"1">>),
     Str(<<"T", "r", "u", "e">>), Str(<<>>), Unicode(<<"Y", "e", "s">>)}

TagKeys == {Str(<<"x">>), Str(<<"y">>)}
Tags == {Str(<<"a">>), Str(<<"a", "b">>)}
TagSeqs == {List(s) : s \in SeqsUpTo(Tags, MaxTags)}
\* values a mapping can hold that are no tag sequence
OtherVals == {Str(<<"a", "b">>), PyInt(1)}
\* a dict holds a key once
DupKeys(V) == {Dict(<<<<k, v1>>, <<k, v2>>>>) : k \in TagKeys, v1 \in V, v2 \in V}
DictsOver(V) ==
    {Dict(<<>>)}
    \cup {Dict(<<<<k, v>>>>) : k \in TagKeys, v \in V}
    \cup ({Dict(<<<<k1, v1>>, <<k2, v2>>>>) :
             k1 \in TagKeys, k2 \in TagKeys, v1 \in V, v2 \in V} \ DupKeys(V))
\* tag mappings: every value is a sequence of tag strings
TagMaps == DictsOver(TagSeqs)
Dicts == DictsOver(TagSeqs \cup OtherVals)
NonDicts == {NoneV, List(<<Str(<<"a">>)>>), Str(<<"x">>)}
TagArgs == {Str(<<"a">>), Str(<<"b">>), Unicode(<<"a">>), PyInt(1)}
FmtArgs == {Str(s) : s \in SeqsUpTo({"%", "s"}, MaxFmtLen)} \cup {Unicode(<<"%", "s">>), NoneV}

LibInit ==
    /\ fn = ""
    /\ args = <<>>
    /\ post = <<>>
    /\ ret = [exc |-> "", alias |-> 0, val |-> NoneV]

\* no filter call is in progress: the engine invokes filters one at a time
Idle == fn = ""

\* the host calls filter f on the argument objects a; o is what f does
Call(f, a, o) ==
    /\ fn' = f
    /\ args' = a
    /\ post' = o.post
    /\ ret' = [exc |-> o.exc, alias |-> o.alias, val |-> o.val]
    /\ UNCHANGED <<regVars, cliVars>>

Call_skip_filter ==
    /\ Idle
    /\ \E d \in Scalars \cup Lists : Call("skip_filter", <<d>>, skip_filter(d))

Call_ensure_sequence_filter ==
    /\ Idle
    /\ \E d \in Scalars \cup Lists \cup Tuples \cup Dicts :
            Call("ensure_sequence_filter", <<d>>, ensure_sequence_filter(d))

Call_to_bool ==
    /\ Idle
    /\ \E v \in Scalars \cup Lists \cup Tuples \cup TagMaps : Call("to_bool", <<v>>, to_bool(v))

Call_unique ==
    /\ Idle
    /\ \E v \in Lists \cup Tuples \cup IntLists : Call("unique", <<v>>, unique(v))

Call_lst_avg ==
    /\ Idle
    /\ \E l \in IntLists \cup Lists \cup Scalars : Call("lst_avg", <<l>>, lst_avg(l))

Call_union ==
    /\ Idle
    /\ \E a \in Lists \cup Tuples, b \in Lists \cup Tuples :
            Call("union", <<a, b>>, union(a, b))

Call_intersect ==
    /\ Idle
    /\ \E a \in Lists \cup Tuples, b \in Lists \cup Tuples :
            Call("intersect", <<a, b>>, intersect(a, b))

Call_difference ==
    /\ Idle
    /\ \E a \in Lists \cup Tuples, b \in Lists \cup Tuples :
            Call("difference", <<a, b>>, difference(a, b))

Call_symmetric_difference ==
    /\ Idle
    /\ \E a \in Lists \cup Tuples, b \in Lists \cup Tuples :
            Call("symmetric_difference", <<a, b>>, symmetric_difference(a, b))

Call_list_with_tag ==
    /\ Idle
    /\ \E d \in Dicts \cup NonDicts, t \in TagArgs :
            Call("list_with_tag", <<d, t>>, list_with_tag(d, t))

Call_interpolate_list_with_tag ==
    /\ Idle
    /\ \E d \in Dicts \cup NonDicts, t \in TagArgs, f \in FmtArgs :
            Call("interpolate_list_with_tag", <<d, t, f>>, interpolate_list_with_tag(d, t, f))

\* the engine takes the result of the call and goes on rendering
Resume ==
    /\ ~Idle
    /\ fn' = ""
    /\ args' = <<>>
    /\ post' = <<>>
    /\ ret' = [exc |-> "", alias |-> 0, val |-> NoneV]
    /\ UNCHANGED <<regVars, cliVars>>

LibNext ==
    \/ Resume
    \/ Call_skip_filter
    \/ Call_ensure_sequence_filter
    \/ Call_to_bool
    \/ Call_unique
    \/ Call_lst_avg
    \/ Call_union
    \/ Call_intersect
    \/ Call_difference
    \/ Call_symmetric_difference
    \/ Call_list_with_tag
    \/ Call_interpolate_list_with_tag

(***************************************************************************)
(* The registrars run on an engine's filter namespace.                     *)
(***************************************************************************)
\* filters the engine may bind itself before the library is installed
EngineNames == {"first", "join", "list", "lower", "max", "min", "unique"}

RegInit ==
    /\ \E S \in SUBSET EngineNames : filters = {<<n, <<"jinja2.filters", n>>>> : n \in S}
    /\ installed = {}

InstallSalt ==
    /\ filters' = salt_install(filters)
    /\ installed' = installed \cup {"filters.salt"}
    /\ UNCHANGED <<libVars, cliVars>>

InstallTags ==
    /\ filters' = tags_install(filters)
    /\ installed' = installed \cup {"filters.tags"}
    /\ UNCHANGED <<libVars, cliVars>>

RegNext == InstallSalt \/ InstallTags

(***************************************************************************)
(* jinja-test.py: main, load_pillar and JTest.                             *)
(***************************************************************************)
\* "-x" stands for an option getopt does not recognise
Options == {"-h", "-d", "-p", "-t", "-x"}

CliInit ==
    /\ argv \in SeqsUpTo(Options, MaxOpts)
    /\ pillarDoc \in {"mapping", "malformed", "missing"}
    /\ tplDoc \in {"found", "missing"}
    /\ pc = "getopt"
    /\ optIdx = 1
    /\ pillar = "unbound"
    /\ out = <<>>
    /\ status = ""

\* the process ends: by sys.exit(code) or by an uncaught exception
Halt(how) == pc' = "halt" /\ status' = how

\* main, lines 48-54
MainGetopt ==
    /\ pc = "getopt"
    /\ IF "-x" \in Range(argv)
       THEN out' = out \o <<"ERROR", "usage">> /\ Halt("exit 2")
       ELSE out' = out /\ pc' = "options" /\ status' = status
    /\ UNCHANGED <<argv, pillarDoc, tplDoc, optIdx, pillar, libVars, regVars>>

\* main, lines 57-68: one pass of the option loop
MainOption ==
    /\ pc = "options"
    /\ optIdx <= Len(argv)
    /\ CASE argv[optIdx] = "-h" -> out' = out \o <<"usage">> /\ Halt("exit 0") /\ optIdx' = optIdx
         \* JTest(pillar, template) reads main's local pillar before line 69 binds it
         [] argv[optIdx] = "-d" -> out' = out /\ Halt("UnboundLocalError") /\ optIdx' = optIdx
         [] OTHER -> out' = out /\ optIdx' = optIdx + 1 /\ pc' = pc /\ status' = status
    /\ UNCHANGED <<argv, pillarDoc, tplDoc, pillar, libVars, regVars>>

\* main, line 69 calls load_pillar; load_pillar, line 14: open the file
LoadPillarOpen ==
    /\ pc = "options"
    /\ optIdx > Len(argv)
    /\ IF pillarDoc = "missing" THEN Halt("IOError") ELSE pc' = "yaml" /\ status' = status
    /\ UNCHANGED <<argv, pillarDoc, tplDoc, optIdx, pillar, out, libVars, regVars>>

\* load_pillar, lines 15-18: parse; a YAMLError is printed and swallowed
LoadPillarParse ==
    /\ pc = "yaml"
    /\ IF pillarDoc = "malformed"
       THEN out' = out \o <<"YAMLError">> /\ pillar' = pillar
       ELSE out' = out /\ pillar' = "mapping"
    /\ pc' = "return"
    /\ UNCHANGED <<argv, pillarDoc, tplDoc, optIdx, status, libVars, regVars>>

\* load_pillar, line 19: return pillar; reading the local raises
\* UnboundLocalError when line 16 never assigned it
LoadPillarReturn ==
    /\ pc = "return"
    /\ IF pillar = "unbound" THEN Halt("UnboundLocalError")
       ELSE pc' = "JTest" /\ status' = status
    /\ UNCHANGED <<argv, pillarDoc, tplDoc, optIdx, pillar, out, libVars, regVars>>

\* JTest.__init__, lines 29-36: load the template, print the pillar, render
JTestInit ==
    /\ pc = "JTest"
    /\ IF tplDoc = "missing"
       THEN out' = out /\ Halt("TemplateNotFound")
       ELSE out' = out \o <<"Pillar data", "Template:", "rendered">> /\ Halt("exit 0")
    /\ UNCHANGED <<argv, pillarDoc, tplDoc, optIdx, pillar, libVars, regVars>>

CliNext ==
    \/ MainGetopt
    \/ MainOption
    \/ LoadPillarOpen
    \/ LoadPillarParse
    \/ LoadPillarReturn
    \/ JTestInit

(***************************************************************************)
(* Specifications: the library, the registrars, the harness.               *)
(***************************************************************************)
RegIdle == filters = {} /\ installed = {}
CliIdle ==
    /\ argv = <<>> /\ pillarDoc = "mapping" /\ tplDoc = "found" /\ pc = "getopt"
    /\ optIdx = 1 /\ pillar = "unbound" /\ out = <<>> /\ status = ""

Init == LibInit /\ RegIdle /\ CliIdle
Next == LibNext
Spec == Init /\ [][Next]_vars

InitRegistrar == LibInit /\ RegInit /\ CliIdle
NextRegistrar == RegNext
SpecRegistrar == InitRegistrar /\ [][NextRegistrar]_vars

InitHarness == LibInit /\ RegIdle /\ CliInit
NextHarness == CliNext
SpecHarness == InitHarness /\ [][NextHarness]_vars

(***************************************************************************)
(* Properties.                                                             *)
(***************************************************************************)
SetOps == {"union", "intersect", "difference", "symmetric_difference"}

\* the elements of a returned collection, as a set
ElemSet(v) ==
    CASE v.type \in {"list", "tuple"} -> Range(v.items)
      [] v.type = "set" -> v.elems
      [] OTHER -> {}

Returned == ret.exc = ""

RequiredFilters ==
    {<<"skip", <<"filters.salt", "skip_filter">>>>,
     <<"sequence", <<"filters.salt", "ensure_sequence_filter">>>>,
     <<"to_bool", <<"filters.salt", "to_bool">>>>,
     <<"quote", <<"filters.salt", "quote">>>>,
     <<"regex_escape", <<"filters.salt", "regex_escape">>>>,
     <<"regex_search", <<"filters.salt", "regex_search">>>>,
     <<"regex_match", <<"filters.salt", "regex_match">>>>,
     <<"regex_replace", <<"filters.salt", "regex_replace">>>>,
     <<"uuid", <<"filters.salt", "uuid_">>>>,
     <<"unique", <<"filters.salt", "unique">>>>,
     <<"min", <<"filters.salt", "lst_min">>>>,
     <<"max", <<"filters.salt", "lst_max">>>>,
     <<"avg", <<"filters.salt", "lst_avg">>>>,
     <<"union", <<"filters.salt", "union">>>>,
     <<"intersect", <<"filters.salt", "intersect">>>>,
     <<"difference", <<"filters.salt", "difference">>>>,
     <<"symmetric_difference", <<"filters.salt", "symmetric_difference">>>>,
     <<"list_with_tag", <<"filters.tags", "list_with_tag">>>>,
     <<"interpolate_list_with_tag", <<"filters.tags", "interpolate_list_with_tag">>>>}

\* C1: once both registrars have run on a filter namespace, each of the 19
\* required names is bound there to the corresponding filter function.
C1_RequiredNamesBound ==
    installed = {"filters.salt", "filters.tags"} => RequiredFilters \subseteq filters

\* C2: for two input lists A and B, union, intersect, difference and
\* symmetric_difference return a collection whose set of elements is the
\* union, intersection, difference and symmetric difference of set(A), set(B).
C2_SetAlgebra ==
    (fn \in SetOps /\ args[1].type = "list" /\ args[2].type = "list") =>
        LET A == Range(args[1].items)
            B == Range(args[2].items)
        IN  /\ Returned
            /\ ElemSet(ret.val) =
                 CASE fn = "union" -> A \cup B
                   [] fn = "intersect" -> A \cap B
                   [] fn = "difference" -> A \ B
                   [] fn = "symmetric_difference" -> (A \cup B) \ (A \cap B)

FirstOccurrences(s) == {i \in 1..Len(s) : \A j \in 1..(i - 1) : s[j] # s[i]}

\* C3: unique returns a collection holding every distinct element of the
\* input and none twice; for a list (never hashable) the result is a new list
\* with the elements in the order of their first occurrence.
C3_UniqueDistinct ==
    (fn = "unique" /\ args[1].type = "list") =>
        LET s == args[1].items
        IN  /\ Returned
            /\ ret.alias = 0
            /\ ret.val.type = "list"
            /\ Range(ret.val.items) = Range(s)
            /\ Len(ret.val.items) = Cardinality(Range(s))
            /\ \A i, j \in FirstOccurrences(s) : i < j =>
                 \E a, b \in 1..Len(ret.val.items) :
                    a < b /\ ret.val.items[a] = s[i] /\ ret.val.items[b] = s[j]

AllElemsHashable(v) == \A i \in 1..Len(v.items) : CanHash(v.items[i])

\* C4: the path of the four set operations is chosen by the hashability of the
\* elements: inputs whose elements are all hashable give an unordered set, and
\* a list comes back only when some element of either input is unhashable.
C4_PathByElementHashability ==
    fn \in SetOps =>
        /\ (AllElemsHashable(args[1]) /\ AllElemsHashable(args[2])) =>
              Returned /\ ret.val.type = "set"
        /\ (Returned /\ ret.val.type = "list") =>
              ~(AllElemsHashable(args[1]) /\ AllElemsHashable(args[2]))

\* C5: to_bool returns, for every input: false for None, a boolean itself,
\* for a string whether its lowercase form is "yes", "1" or "true", for an
\* integer whether it is greater than zero, false for any other hashable value,
\* and for a non-hashable collection whether it is non-empty.
C5_ToBoolTotal ==
    fn = "to_bool" =>
        LET v == args[1]
        IN  /\ Returned
            /\ ret.val =
                 Bool(CASE v.type = "NoneType" -> FALSE
                        [] v.type = "bool" -> v.b
                        [] v.type \in {"str", "unicode"} ->
                             Lower(v.s) \in {<<"y", "e", "s">>, <<"1">>, <<"t", "r", "u", "e">>}
                        [] v.type = "int" -> v.i > 0
                        [] v.type \in {"list", "dict"} -> Len(v.items) > 0
                        [] OTHER -> FALSE)

\* C6: for a non-empty list of integers avg returns the exact mean sum/length
\* as a float (no truncation); for an integer scalar it returns that value as
\* a float.
C6_AvgExactMean ==
    fn = "lst_avg" =>
        /\ (args[1] \in IntLists /\ Len(args[1].items) > 0) =>
              /\ Returned
              /\ ret.val.type = "float"
              /\ ret.val.num * Len(args[1].items) = Sum(args[1].items) * ret.val.den
        /\ args[1].type = "int" => Returned /\ ret.val = Float(args[1].i, 1)

KeysOf(d) == [i \in 1..Len(d.items) |-> d.items[i][1]]
KeysTagged(d, tag) ==
    {d.items[i][1] : i \in {j \in 1..Len(d.items) : tag \in Range(d.items[j][2].items)}}

TypeMismatch ==
    \/ args[1].type # "dict"
    \/ args[2].type # "str"
    \/ fn = "interpolate_list_with_tag" /\ args[3].type # "str"

PassedThrough == Returned /\ ret.alias = 1 /\ ret.val = args[1]

\* C8 as stated: list_with_tag returns its first argument itself whenever
\* that is no dict or the tag is no str, interpolate_list_with_tag also
\* whenever the format is no str; in every other case the result is the
\* filtered list.
C8_PassThroughOrList ==
    fn \in {"list_with_tag", "interpolate_list_with_tag"} =>
        IF TypeMismatch THEN PassedThrough
        ELSE Returned /\ ret.alias = 0 /\ ret.val.type = "list"

ValuesTestable(d) ==
    \A i \in 1..Len(d.items) : d.items[i][2].type \in {"list", "str"}

OnePlaceholder(f) ==
    /\ Cardinality({i \in 1..Len(f) : f[i] = "%"}) = 1
    /\ \E i \in 1..(Len(f) - 1) : f[i] = "%" /\ f[i + 1] = "s"

\* C8 as amended: on a type mismatch the first argument itself comes back; in
\* every other case the input never comes back: the call returns a newly built
\* list or raises TypeError or ValueError, and it does return the list when
\* every value of the mapping is a list or a str and, for
\* interpolate_list_with_tag, the format holds a single "%" and that one is
\* followed by "s".
C8_PassThroughOrListOrError ==
    fn \in {"list_with_tag", "interpolate_list_with_tag"} =>
        IF TypeMismatch THEN PassedThrough
        ELSE /\ ret.alias = 0
             /\ ret.exc \in {"", "TypeError", "ValueError"}
             /\ Returned => ret.val.type = "list"
             /\ ( /\ ValuesTestable(args[1])
                  /\ fn = "interpolate_list_with_tag" => OnePlaceholder(args[3].s) )
                => Returned

\* C8 witness: a two-entry mapping and a str tag, passed through because the
\* format is no str
C8_Witness ==
    /\ fn = "interpolate_list_with_tag"
    /\ args[1].type = "dict" /\ Len(args[1].items) = 2
    /\ args[2].type = "str"
    /\ args[3].type # "str"
    /\ PassedThrough

\* C9: when the pillar file fails to parse, the error is printed and the run
\* goes on to render and print the template; it does not end in between.
C9_RenderAfterParseError ==
    (pc = "halt" /\ "YAMLError" \in Range(out) /\ tplDoc = "found") =>
        "rendered" \in Range(out)

NonMutating ==
    {"ensure_sequence_filter", "unique", "union", "intersect", "difference",
     "symmetric_difference", "list_with_tag", "interpolate_list_with_tag"}

\* C10: a call of ensure_sequence_filter, unique, union, intersect,
\* difference, symmetric_difference, list_with_tag or interpolate_list_with_tag
\* leaves every argument object as it was, and what it returns is either one
\* of the argument objects, unchanged, or a newly constructed value.
C10_NoArgumentMutated ==
    fn \in NonMutating =>
        /\ post = args
        /\ ret.alias \in 0..Len(args)
        /\ ret.alias # 0 => ret.val = args[ret.alias]

\* C10 witness: list_with_tag kept one key of a two-entry mapping in a new
\* list and the mapping still has both entries
C10_Witness ==
    /\ fn = "list_with_tag"
    /\ Returned /\ ret.alias = 0
    /\ Len(args[1].items) = 2 /\ Len(ret.val.items) = 1
    /\ post = args

====
